---------------------------- MODULE Spec2Model ----------------------------
(***************************************************************************)
(* SIRModel (SIRClass.py): one instance of the class, the calls a client   *)
(* can make on it, and the numbers it computes.                            *)
(*                                                                         *)
(* Numbers.  A Python float x is the integer x * Scale.  The floats of the *)
(* model are binary floating-point numbers with MantBits significant bits  *)
(* above a smallest positive number 1/Scale: every arithmetic result is    *)
(* rounded to the nearest float, ties to even, as IEEE 754 arithmetic      *)
(* does, and a magnitude above MaxFloat is not finite.                     *)
(*                                                                         *)
(* odeint.  scipy.integrate.odeint is called by simulate and is not part   *)
(* of the repository.  Its stand-in here is an error-controlled one-step   *)
(* integrator: over each output interval it takes 2^k explicit Euler steps *)
(* of the vector field, refining k until a refinement no longer changes    *)
(* the result (it has converged in the floats of the model), and gives up  *)
(* after MaxRefine refinements.  Like odeint it puts y0 in the first row,  *)
(* raises ValueError for a time grid that is not monotonic, and when it    *)
(* gives up it warns and returns its output array, the rows it did not     *)
(* reach left uninitialised.                                               *)
(***************************************************************************)
EXTENDS Integers, Sequences, FiniteSets, TLC

\* ------------------------------------------------------------- bounds
\* Fraction bits of the floats: 1.0 is Scale.
ScaleBits == 3
\* Significant bits of a float.
MantBits == 4
\* The largest finite magnitude.
MaxFloat == 4096
\* The integrator's refinements per output interval (its step budget).
MaxRefine == 3
Scale == 2 ^ ScaleBits

\* ------------------------------------------------------ float arithmetic
Abs(x) == IF x < 0 THEN -x ELSE x

Sign(x) == IF x < 0 THEN -1 ELSE 1

Max(a, b) == IF a < b THEN b ELSE a

\* The spacing of the floats at magnitude m (m >= 0).
RECURSIVE Ulp(_)
Ulp(m) == IF m < 2 ^ MantBits THEN 1 ELSE 2 * Ulp(m \div 2)

\* a / d (a >= 0, d > 0) rounded to the nearest integer, ties to even.
RoundHalfEven(a, d) ==
    LET q == a \div d
        r == a % d
    IN  IF 2 * r < d THEN q
        ELSE IF 2 * r > d THEN q + 1
        ELSE q + (q % 2)

\* The float nearest to n / d (d > 0).
Fl(n, d) ==
    LET a == Abs(n)
        e == Ulp(a \div d)
    IN  Sign(n) * RoundHalfEven(a, d * e) * e

FNeg(a) == -a

FAdd(a, b) == Fl(a + b, 1)

FSub(a, b) == Fl(a - b, 1)

FMul(a, b) == Fl(a * b, Scale)

FDiv(a, n) == Fl(a, n)

Finite(y) == \A i \in 1..3 : Abs(y[i]) <= MaxFloat

\* --------------------------------------------------------- vector field
\* sir_equations without the recovery term in dI/dt.
sir_equations_NoRecoveryOutflow(b, g, y, t) ==
    LET S == y[1]
        I == y[2]
    IN  <<FMul(FMul(FNeg(b), S), I), FMul(FMul(b, S), I), FMul(g, I)>>

\* sir_equations with the recovery term of dI/dt added instead of subtracted.
sir_equations_RecoveryInflow(b, g, y, t) ==
    LET S == y[1]
        I == y[2]
    IN  <<FMul(FMul(FNeg(b), S), I),
          FAdd(FMul(FMul(b, S), I), FMul(g, I)),
          FMul(g, I)>>

\* sir_equations with beta in place of gamma in dR/dt.
sir_equations_BetaRecovery(b, g, y, t) ==
    LET S == y[1]
        I == y[2]
    IN  <<FMul(FMul(FNeg(b), S), I),
          FSub(FMul(FMul(b, S), I), FMul(g, I)),
          FMul(b, I)>>

\* sir_equations without the minus sign of dS/dt.
sir_equations_GrowingS(b, g, y, t) ==
    LET S == y[1]
        I == y[2]
    IN  <<FMul(FMul(b, S), I),
          FSub(FMul(FMul(b, S), I), FMul(g, I)),
          FMul(g, I)>>

\* SIRModel.sir_equations: [dS/dt, dI/dt, dR/dt] at y = [S, I, R]; t is unused.
sir_equations(b, g, y, t) ==
    LET S == y[1]
        I == y[2]
        R == y[3]
        dSdt == FMul(FMul(FNeg(b), S), I)
        dIdt == FSub(FMul(FMul(b, S), I), FMul(g, I))
        dRdt == FMul(g, I)
    IN  <<dSdt, dIdt, dRdt>>

\* ------------------------------------------------------------- odeint
\* One explicit Euler step of length h from y.
EulerStep(b, g, y, h) ==
    LET d == sir_equations(b, g, y, 0)
    IN  [i \in 1..3 |-> FAdd(y[i], FMul(h, d[i]))]

\* n Euler steps of length h from y; stops at a state that is not finite.
RECURSIVE Attempt(_, _, _, _, _)
Attempt(b, g, y, h, n) ==
    IF n = 0 \/ ~Finite(y) THEN y
    ELSE Attempt(b, g, EulerStep(b, g, y, h), h, n - 1)

\* The error test: refining the steps no longer changes the result.
Converged(coarse, fine) == Finite(coarse) /\ Finite(fine) /\ coarse = fine

\* The integration over one output interval of length dt from y, given the
\* result `coarse` of refinement k - 1: the first refinement k that passes the
\* error test, or failure past MaxRefine.
RECURSIVE Refine(_, _, _, _, _, _)
Refine(b, g, y, dt, k, coarse) ==
    IF k > MaxRefine THEN [ok |-> FALSE, y |-> coarse, nst |-> 2 ^ MaxRefine]
    ELSE LET fine == Attempt(b, g, y, FDiv(dt, 2 ^ k), 2 ^ k)
         IN  IF Converged(coarse, fine)
             THEN [ok |-> TRUE, y |-> fine, nst |-> 2 ^ k]
             ELSE Refine(b, g, y, dt, k + 1, fine)

Solve(b, g, y, dt) == Refine(b, g, y, dt, 1, Attempt(b, g, y, dt, 1))

\* The rows for t[j], t[j+1], ... from the row y of t[j-1], appended to `out`.
RECURSIVE Rows(_, _, _, _, _, _)
Rows(b, g, y, t, j, out) ==
    IF j > Len(t) THEN [status |-> "ok", rows |-> out.rows, nst |-> out.nst]
    ELSE LET s == Solve(b, g, y, FSub(t[j], t[j - 1]))
         IN  IF s.ok
             THEN Rows(b, g, s.y, t, j + 1,
                       [rows |-> Append(out.rows, s.y), nst |-> Append(out.nst, s.nst)])
             ELSE [status |-> "nonconverged", rows |-> out.rows, nst |-> out.nst]

\* odeint requires t to be monotonically increasing or decreasing
\* (repeated values are allowed).
Monotonic(t) ==
    \/ \A j \in 2..Len(t) : t[j - 1] <= t[j]
    \/ \A j \in 2..Len(t) : t[j - 1] >= t[j]

\* odeint whose output starts at the second time point.
odeint_NoFirstRow(b, g, y0, t) ==
    LET o == Rows(b, g, y0, t, 2, [rows |-> <<y0>>, nst |-> <<>>])
    IN  [status |-> o.status, rows |-> Tail(o.rows), nst |-> o.nst]

\* odeint(func, y0, t): the first row is y0, then one row per further time
\* point for as long as the integrator converges.
odeint(b, g, y0, t) == Rows(b, g, y0, t, 2, [rows |-> <<y0>>, nst |-> <<>>])

\* ------------------------------------------------------------- inputs
\* Constructor arguments a client may pass (nothing restricts them).
Betas == {-4, 0, 4, 16}

Gammas == {0, 2, 4}

InitialConditions ==
    { <<8, 4, 2>>, <<12, 12, 2>>, <<16, 4, 2>>, <<8, 16, 2>>, <<8, -8, 0>> }

\* Time grids a client may pass to simulate and to plot_results.
TimeGrids ==
    { <<0>>,
      <<0, Scale>>,
      <<0, Scale, 2 * Scale>>,
      <<Scale, 0>>,
      <<0, 2 * Scale, Scale>> }

\* State vectors a client may pass to sir_equations.
StateVectors == {<<S, I, R>> : S \in {-8, 1, 16}, I \in {-4, 12}, R \in {0}}

\* What the rows odeint did not write may hold.
Uninitialized == {<<0, 0, 0>>, <<-1, MaxFloat, 3>>}

\* -------------------------------------------------------------- state
VARIABLES
    beta,                \* self.beta
    gamma,               \* self.gamma
    initial_conditions,  \* self.initial_conditions
    attrs,               \* the names of the instance's attributes
    results,             \* self.results when "results" \in attrs
    op,                  \* the last call: its method,
    arg,                 \*   its argument,
    outcome,             \*   "return" or the exception it raised,
    warning,             \*   the warning it emitted,
    ret,                 \*   the value sir_equations returned,
    rendered,            \*   the series handed to the plotting library
    info,                \* the odeint call that wrote results: status, steps, grid
    ctor,                \* the constructor's arguments
    converged,           \* some simulate call has run a converged integration
    replaced             \* the last call overwrote a different trajectory

vars == <<beta, gamma, initial_conditions, attrs, results, op, arg, outcome, warning,
          ret, rendered, info, ctor, converged, replaced>>

NoInfo == [status |-> "none", nst |-> <<>>, t |-> <<>>]

\* SIRModel.__init__: stores its three arguments as given.
Init ==
    /\ beta \in Betas
    /\ gamma \in Gammas
    /\ initial_conditions \in InitialConditions
    /\ attrs = {"beta", "gamma", "initial_conditions"}
    /\ results = <<>>
    /\ op = "__init__"
    /\ arg = <<>>
    /\ outcome = "return"
    /\ warning = "none"
    /\ ret = <<>>
    /\ rendered = <<>>
    /\ info = NoInfo
    /\ ctor = [beta |-> beta, gamma |-> gamma, initial_conditions |-> initial_conditions]
    /\ converged = FALSE
    /\ replaced = FALSE

\* simulate keeping a trajectory it already has.
StoreResults_KeepOld(old, new) == IF old = <<>> THEN new ELSE old

\* odeint integrating in the caller's y0.
CallerY0_InPlace(y0, rows) == rows[Len(rows)]

\* The value simulate assigns to self.results, given the old one.
StoreResults(old, new) == new

\* What odeint leaves in the caller's y0 (it integrates a copy).
CallerY0(y0, rows) == y0

\* The array odeint returns when it gave up: the rows it reached, and `junk`
\* in the rows it never wrote.
Unfinished(rows, n, junk) ==
    [j \in 1..n |-> IF j <= Len(rows) THEN rows[j] ELSE junk[j]]

\* SIRModel.simulate(t): self.results = odeint(self.sir_equations,
\* self.initial_conditions, t).
simulate(t) ==
    /\ op' = "simulate"
    /\ arg' = t
    /\ ret' = <<>>
    /\ rendered' = <<>>
    /\ UNCHANGED <<beta, gamma, ctor>>
    /\ \/ \* odeint rejects the grid: the exception leaves simulate before the assignment
          /\ ~Monotonic(t)
          /\ outcome' = "ValueError"
          /\ warning' = "none"
          /\ replaced' = FALSE
          /\ UNCHANGED <<initial_conditions, attrs, results, info, converged>>
       \/ /\ Monotonic(t)
          /\ outcome' = "return"
          /\ attrs' = attrs \cup {"results"}
          /\ \E o \in {odeint(beta, gamma, initial_conditions, t)} :
                 /\ initial_conditions' = CallerY0(initial_conditions, o.rows)
                 /\ info' = [status |-> o.status, nst |-> o.nst, t |-> t]
                 /\ \/ \* the integration converged on every interval
                       /\ o.status = "ok"
                       /\ results' = StoreResults(results, o.rows)
                       /\ warning' = "none"
                       /\ converged' = TRUE
                    \/ \* the integrator gave up: odeint warns and returns the array
                       /\ o.status = "nonconverged"
                       /\ \E junk \in [(Len(o.rows) + 1)..Len(t) -> Uninitialized] :
                             results' = StoreResults(results, Unfinished(o.rows, Len(t), junk))
                       /\ warning' = "ODEintWarning"
                       /\ UNCHANGED converged
          /\ replaced' = ("results" \in attrs /\ results' # results)

\* self.results.T: the columns of the trajectory.
Column(rows, i) == [j \in 1..Len(rows) |-> rows[j][i]]

\* SIRModel.plot_results(t): S, I, R = self.results.T, then each plotted against t.
plot_results(t) ==
    /\ op' = "plot_results"
    /\ arg' = t
    /\ warning' = "none"
    /\ replaced' = FALSE
    /\ ret' = <<>>
    /\ UNCHANGED <<beta, gamma, initial_conditions, attrs, results, info, ctor, converged>>
    /\ \/ /\ "results" \notin attrs
          /\ outcome' = "AttributeError"
          /\ rendered' = <<>>
       \/ \* the plotting library rejects x and y of different lengths
          /\ "results" \in attrs
          /\ Len(t) # Len(results)
          /\ outcome' = "ValueError"
          /\ rendered' = <<>>
       \/ /\ "results" \in attrs
          /\ Len(t) = Len(results)
          /\ outcome' = "return"
          /\ rendered' = <<t, Column(results, 1), Column(results, 2), Column(results, 3)>>

\* SIRModel.plot_phase_portrait(): S, I, _ = self.results.T, then I against S.
plot_phase_portrait ==
    /\ op' = "plot_phase_portrait"
    /\ arg' = <<>>
    /\ warning' = "none"
    /\ replaced' = FALSE
    /\ ret' = <<>>
    /\ UNCHANGED <<beta, gamma, initial_conditions, attrs, results, info, ctor, converged>>
    /\ \/ /\ "results" \notin attrs
          /\ outcome' = "AttributeError"
          /\ rendered' = <<>>
       \/ /\ "results" \in attrs
          /\ outcome' = "return"
          /\ rendered' = <<Column(results, 1), Column(results, 2)>>

\* A client's own call of the public method sir_equations(y, t).
call_sir_equations(y, t) ==
    /\ op' = "sir_equations"
    /\ arg' = y
    /\ ret' = sir_equations(beta, gamma, y, t)
    /\ outcome' = "return"
    /\ warning' = "none"
    /\ replaced' = FALSE
    /\ rendered' = <<>>
    /\ UNCHANGED <<beta, gamma, initial_conditions, attrs, results, info, ctor, converged>>

Next ==
    \/ \E t \in TimeGrids : simulate(t)
    \/ \E t \in TimeGrids : plot_results(t)
    \/ plot_phase_portrait
    \/ \E y \in StateVectors : call_sir_equations(y, 0)

Spec == Init /\ [][Next]_vars

\* ---------------------------------------------------------- properties
Sum(y) == y[1] + y[2] + y[3]

MaxAbs(y) == Max(Max(Abs(y[1]), Abs(y[2])), Abs(y[3]))

\* self.results is the complete output of a converged integration.
ConvergedRun == "results" \in attrs /\ info.status = "ok"

\* The time grid runs forward.
Forward(t) == \A j \in 2..Len(t) : t[j - 1] < t[j]

\* The constructor's arguments are the ones the model is meant for.
ValidInput ==
    /\ ctor.beta >= 0
    /\ ctor.gamma >= 0
    /\ \A i \in 1..3 : ctor.initial_conditions[i] >= 0

Accessors == {"plot_results", "plot_phase_portrait"}

\* C1: on an instance on which no simulate call has completed a converged
\* integration, plot_results and plot_phase_portrait fail with an error and
\* render nothing.
C1_AccessorsFailBeforeSuccess ==
    (op \in Accessors /\ ~converged) => (outcome # "return" /\ rendered = <<>>)

\* C2: a simulate call whose integration does not converge raises an error,
\* and leaves the parameters, the attributes and any earlier trajectory as
\* they were.
C2_SolverFailureRaises ==
    [][(op' = "simulate" /\ warning' = "ODEintWarning") =>
          /\ outcome' # "return"
          /\ attrs' = attrs
          /\ results' = results
          /\ <<beta, gamma, initial_conditions>>' = <<beta, gamma, initial_conditions>>]_vars

C4_OneRowPerTimePoint ==
    (op = "simulate" /\ outcome = "return" /\ warning = "none") =>
        /\ Len(results) = Len(arg)
        /\ results[1] = initial_conditions
        /\ \A j \in 2..Len(arg) :
              results[j] = Solve(beta, gamma, results[j - 1], FSub(arg[j], arg[j - 1])).y

C4_Witness ==
    /\ op = "simulate"
    /\ outcome = "return"
    /\ warning = "none"
    /\ Len(arg) = 3
    /\ results[1] = initial_conditions
    /\ results[2] # results[1]
    /\ results[3] # results[2]

\* C5: beta, gamma and initial_conditions are the constructor's arguments
\* whatever has been called since.
C5_ParametersNeverChange ==
    /\ beta = ctor.beta
    /\ gamma = ctor.gamma
    /\ initial_conditions = ctor.initial_conditions

C5_Witness ==
    /\ op = "plot_phase_portrait"
    /\ outcome = "return"
    /\ ConvergedRun
    /\ Len(results) = 3
    /\ results[3] # ctor.initial_conditions
    /\ initial_conditions = ctor.initial_conditions

\* C6: an instance starts without a trajectory; once it has one it never
\* loses it; every simulate call that converges leaves exactly the rows
\* computed for its own time grid, whatever trajectory was there before; and
\* an accessor that returns has rendered the columns of the current one.
C6_Lifecycle ==
    /\ "results" \notin attrs
    /\ [][/\ "results" \in attrs => "results" \in attrs'
          /\ (op' = "simulate" /\ outcome' = "return" /\ warning' = "none") =>
                /\ "results" \in attrs'
                /\ results' = odeint(beta, gamma, initial_conditions, arg').rows
          /\ (op' = "plot_results" /\ outcome' = "return") =>
                /\ "results" \in attrs
                /\ rendered' = <<arg', Column(results', 1), Column(results', 2),
                                 Column(results', 3)>>
          /\ (op' = "plot_phase_portrait" /\ outcome' = "return") =>
                /\ "results" \in attrs
                /\ rendered' = <<Column(results', 1), Column(results', 2)>>]_vars

C6_Witness ==
    /\ op = "simulate"
    /\ outcome = "return"
    /\ warning = "none"
    /\ replaced
    /\ Len(results) = 2

\* C7: a constructor call with a negative beta, gamma or initial compartment
\* raises InvalidInput, so no instance holding such a value exists for any
\* later call.
C7_InvalidInputRejected ==
    ~ValidInput => (op = "__init__" /\ outcome = "InvalidInput")

=============================================================================
